---- MODULE Spec2Model ----
(***************************************************************************)
(* A model of the Spotify client library (lib.go) and of the handlers of   *)
(* the example server (example/server.go).                                 *)
(*                                                                         *)
(* Every session is one handler invocation.  A handler calls the library   *)
(* functions one after the other; a library function that loops takes one  *)
(* step of the model per remote call.  The remote service is the           *)
(* environment: each remote call draws its outcome from the set of         *)
(* outcomes the transport and the JSON decoder can produce.                *)
(***************************************************************************)
EXTENDS Integers, Sequences, FiniteSets, TLC

VARIABLES
    pc,                 \* per session: the library function about to run
    handler,            \* per session: the handler that is running
    total,              \* per session: size of the collection it reads
    reqLog,             \* per session: the remote calls issued, in order
    offset,             \* per session: `offset` of the pagination loop
    items,              \* per session: the accumulator of the loop
    batch,              \* per session: `i` of the batching loop
    addTrackResponse,   \* per session: `addTrackResponse` of that loop
    ret,                \* per session: what each library call returned
    out,                \* per session: what the handler wrote to `w`
    failed,             \* per session: the handler took an error exit
    srv                 \* the playlists created on the remote service

vars == <<pc, handler, total, reqLog, offset, items, batch,
          addTrackResponse, ret, out, failed, srv>>

Sessions == {"s1", "s2"}

(***************************************************************************)
(* Program constants.                                                      *)
(***************************************************************************)
limit == 5
BatchSize == 100

(***************************************************************************)
(* Bounds of the model.                                                    *)
(***************************************************************************)
MaxTracks == 201        \* tracks of the largest source playlist
MaxPlaylists == 12      \* playlists of the user with the most playlists
MaxFaultPage == 3       \* only the first calls of a loop may go wrong
MaxFaultTotal == 16     \* and, of the fetches, only those of so few items
MaxRequests == 43       \* page requests of one fetch
MaxTracksTwo == 101     \* tracks of the largest source read by two runs at once
MaxProgressTotal == 3   \* largest total a service that makes progress reports

Min(a, b) == IF a < b THEN a ELSE b

CeilDiv(n, d) == (n + d - 1) \div d

(***************************************************************************)
(* Values of Go's `error`.                                                 *)
(***************************************************************************)
ErrNil == "nil"
ErrTransport == "transport error"
ErrDecode == "json error"
ErrEmptyBody == "Empty response body"

(***************************************************************************)
(* Zero values of the library's types.                                     *)
(***************************************************************************)
ZeroPlaylist == [Id |-> "", Name |-> ""]
ZeroAddTrackToPlaylistResponse == [SnapshotId |-> ""]
ZeroTokenResponse == [AccessToken |-> ""]
ZeroUserInfoResponse == [Id |-> ""]

(***************************************************************************)
(* The remote service's data.  The source playlist of a session holds      *)
(* `total` tracks, the listed user owns `total` playlists; the k-th of     *)
(* them is the same whoever asks.                                          *)
(***************************************************************************)
ServerTrack(k) == [Track |-> [Id |-> ToString(k)]]

ServerPlaylist(k) == [Id |-> "p" \o ToString(k), Name |-> "n" \o ToString(k)]

ServerTracks(T) == [k \in 1..T |-> ServerTrack(k)]

ServerPlaylists(T) == [k \in 1..T |-> ServerPlaylist(k)]

SourcePlaylist == [Id |-> "src", Name |-> "mix"]

\* The page of `list` the service answers for ?limit=lim&offset=o.
ServerPage(list, lim, o) ==
    [Items |-> SubSeq(list, o + 1, Min(o + lim, Len(list))),
     Total |-> Len(list)]

(***************************************************************************)
(* Outcomes of one remote call, as the library sees them.                  *)
(*   ok         the call succeeded and the body decodes to the resource    *)
(*   transport  s.Get / s.Post returned err != nil                         *)
(*   syntax     resp.Unmarshal fails and leaves its target untouched       *)
(*   partial    resp.Unmarshal fails on a field's type after it has        *)
(*              decoded the other fields (here: total, but no items)       *)
(*   rejected   the service refused the call with a JSON error document:   *)
(*              it decodes without error and sets none of the fields       *)
(***************************************************************************)
PageOutcomes == {"ok", "transport", "syntax", "partial", "rejected"}

CallOutcomes == {"ok", "transport", "syntax", "rejected"}

\* resp.Unmarshal(&playlistResponse) / resp.Unmarshal(&tracklistResponse)
\* into a fresh envelope.
UnmarshalPage(outcome, page) ==
    CASE outcome = "ok"       -> [err |-> ErrNil, Items |-> page.Items, Total |-> page.Total]
      [] outcome = "partial"  -> [err |-> ErrDecode, Items |-> <<>>, Total |-> page.Total]
      [] outcome = "syntax"   -> [err |-> ErrDecode, Items |-> <<>>, Total |-> 0]
      [] outcome = "rejected" -> [err |-> ErrNil, Items |-> <<>>, Total |-> 0]

\* resp.Unmarshal(&playlist) into a fresh Playlist.
UnmarshalPlaylist(outcome, playlist) ==
    CASE outcome = "ok"       -> [err |-> ErrNil, val |-> playlist]
      [] outcome = "syntax"   -> [err |-> ErrDecode, val |-> ZeroPlaylist]
      [] outcome = "rejected" -> [err |-> ErrNil, val |-> ZeroPlaylist]

\* resp.Unmarshal(&addTrackResponse) into a fresh AddTrackToPlaylistResponse.
UnmarshalSnapshot(outcome, snapshot) ==
    CASE outcome = "ok"       -> [err |-> ErrNil, val |-> [SnapshotId |-> snapshot]]
      [] outcome = "syntax"   -> [err |-> ErrDecode, val |-> ZeroAddTrackToPlaylistResponse]
      [] outcome = "rejected" -> [err |-> ErrNil, val |-> ZeroAddTrackToPlaylistResponse]

(***************************************************************************)
(* The token endpoint.  http.PostForm returns an error with no response,   *)
(* an error with a response whose body is already closed (a refused        *)
(* redirect), or a response: a 2xx status with a token document, or a      *)
(* non-2xx status with a JSON error document; the body of either may also  *)
(* arrive empty or cut short.                                              *)
(***************************************************************************)
NoResponse == [err |-> TRUE, respNil |-> TRUE, StatusCode |-> 0, Body |-> "closed"]

PostFormResults ==
    {NoResponse,
     [err |-> TRUE, respNil |-> FALSE, StatusCode |-> 302, Body |-> "closed"]}
    \cup [err : {FALSE}, respNil : {FALSE}, StatusCode : {200},
          Body : {"token", "empty", "malformed"}]
    \cup [err : {FALSE}, respNil : {FALSE}, StatusCode : {400},
          Body : {"errordoc", "empty", "malformed"}]

Is2xx(status) == status >= 200 /\ status < 300

\* ioutil.ReadAll(resp.Body): the bytes read, in a buffer it has allocated
\* (never a nil slice), whether or not the read failed.
ReadAll(Body) ==
    [isNil |-> FALSE, bytes |-> IF Body = "closed" THEN "empty" ELSE Body]

\* json.Unmarshal(body, &tokenResponse) into a fresh TokenResponse.
UnmarshalToken(bytes) ==
    CASE bytes = "token"     -> [err |-> ErrNil, val |-> [AccessToken |-> "tok"]]
      [] bytes = "errordoc"  -> [err |-> ErrNil, val |-> ZeroTokenResponse]
      [] bytes = "empty"     -> [err |-> ErrDecode, val |-> ZeroTokenResponse]
      [] bytes = "malformed" -> [err |-> ErrDecode, val |-> ZeroTokenResponse]

\* resp.Unmarshal(&userInfoResponse) into a fresh UserInfoResponse.
UnmarshalUserInfo(outcome) ==
    CASE outcome = "ok"       -> [err |-> ErrNil, val |-> [Id |-> "creator"]]
      [] outcome = "syntax"   -> [err |-> ErrDecode, val |-> ZeroUserInfoResponse]
      [] outcome = "rejected" -> [err |-> ErrNil, val |-> ZeroUserInfoResponse]

(***************************************************************************)
(* The log of remote calls.                                                *)
(***************************************************************************)
Request(method, kind, user, id, off, lim, uris, outcome, snapshot) ==
    [method |-> method, kind |-> kind, user |-> user, id |-> id,
     offset |-> off, limit |-> lim, uris |-> uris,
     outcome |-> outcome, snapshot |-> snapshot]

\* The positions of the calls of one kind in a session's log.
Calls(s, kind) == {n \in DOMAIN reqLog[s] : reqLog[s][n].kind = kind}

(***************************************************************************)
(* What the library calls of a session have returned so far.               *)
(***************************************************************************)
NoRet ==
    [token     |-> [state |-> "none", isNil |-> TRUE, val |-> ZeroTokenResponse, err |-> ErrNil,
                    resp |-> NoResponse],
     user      |-> [state |-> "none", isNil |-> TRUE, val |-> ZeroUserInfoResponse, err |-> ErrNil],
     playlists |-> [state |-> "none", items |-> <<>>, err |-> ErrNil],
     info      |-> [state |-> "none", val |-> ZeroPlaylist, err |-> ErrNil],
     tracks    |-> [state |-> "none", items |-> <<>>, err |-> ErrNil],
     create    |-> [state |-> "none", val |-> ZeroPlaylist, err |-> ErrNil],
     add       |-> [state |-> "none", val |-> ZeroAddTrackToPlaylistResponse, err |-> ErrNil]]

Returned(val, err) == [state |-> "returned", val |-> val, err |-> err]

ReturnedItems(list, err) == [state |-> "returned", items |-> list, err |-> err]

Init ==
    /\ pc = [s \in Sessions |-> "idle"]
    /\ handler = [s \in Sessions |-> "none"]
    /\ total = [s \in Sessions |-> 0]
    /\ reqLog = [s \in Sessions |-> <<>>]
    /\ offset = [s \in Sessions |-> 0]
    /\ items = [s \in Sessions |-> <<>>]
    /\ batch = [s \in Sessions |-> 0]
    /\ addTrackResponse = [s \in Sessions |-> ZeroAddTrackToPlaylistResponse]
    /\ ret = [s \in Sessions |-> NoRet]
    /\ out = [s \in Sessions |-> <<>>]
    /\ failed = [s \in Sessions |-> FALSE]
    /\ srv = <<>>

(***************************************************************************)
(* Steps shared by the actions.                                            *)
(***************************************************************************)
Log(s, r) == reqLog' = [reqLog EXCEPT ![s] = Append(@, r)]

Write(s, lines) == out' = [out EXCEPT ![s] = @ \o lines]

Goto(s, label) == pc' = [pc EXCEPT ![s] = label]

\* Accumulate with one accumulator for the whole package, shared by every
\* invocation, in place of a local of the call.
AccumulateShared(s, list) == items' = [t \in Sessions |-> list]

\* The accumulator (playlistItems, tracks) is a local of the call: an
\* assignment touches that of the invocation s only.
Accumulate(s, list) == items' = [items EXCEPT ![s] = list]

\* A remote call may go wrong only among the first MaxFaultPage calls of
\* its kind.
MayFail(s, kind, outcome) ==
    outcome # "ok" => Cardinality(Calls(s, kind)) < MaxFaultPage

\* A page request may go wrong only in the fetch of a small collection.
MayFailPage(s, kind, outcome) ==
    /\ MayFail(s, kind, outcome)
    /\ outcome # "ok" => total[s] <= MaxFaultTotal

(***************************************************************************)
(* GetAccessToken, and authCallback around it.                             *)
(***************************************************************************)
\* What GetAccessToken does with the result r of http.PostForm.
GetAccessTokenResult(r) ==
    IF r.respNil
    THEN \* defer resp.Body.Close() on a nil response
         [state |-> "panic", isNil |-> TRUE, val |-> ZeroTokenResponse,
          err |-> ErrNil, resp |-> r]
    ELSE LET body == ReadAll(r.Body)
         IN  IF ~body.isNil
             THEN LET u == UnmarshalToken(body.bytes)
                  IN  IF u.err = ErrNil
                      THEN [state |-> "returned", isNil |-> FALSE, val |-> u.val,
                            err |-> ErrNil, resp |-> r]
                      ELSE [state |-> "returned", isNil |-> TRUE,
                            val |-> ZeroTokenResponse, err |-> u.err, resp |-> r]
             ELSE [state |-> "returned", isNil |-> TRUE, val |-> ZeroTokenResponse,
                   err |-> ErrEmptyBody, resp |-> r]

\* What GetUserInfo returns for one outcome of its GET.
GetUserInfoResult(outcome) ==
    IF outcome = "transport"
    THEN [state |-> "returned", isNil |-> TRUE, val |-> ZeroUserInfoResponse,
          err |-> ErrTransport]
    ELSE LET u == UnmarshalUserInfo(outcome)
         IN  IF u.err # ErrNil
             THEN [state |-> "returned", isNil |-> TRUE,
                   val |-> ZeroUserInfoResponse, err |-> u.err]
             ELSE [state |-> "returned", isNil |-> FALSE, val |-> u.val,
                   err |-> ErrNil]

\* authCallback up to its call of GetAccessToken.
authCallback(s) ==
    /\ pc[s] = "idle"
    /\ handler' = [handler EXCEPT ![s] = "authCallback"]
    /\ Goto(s, "GetAccessToken")
    /\ UNCHANGED <<total, reqLog, offset, items, batch, addTrackResponse,
                   ret, out, failed, srv>>

\* GetAccessToken, and authCallback up to its call of GetUserInfo: it logs
\* the error and reads tokenResponse.AccessToken whatever was returned.
GetAccessToken(s) ==
    /\ pc[s] = "GetAccessToken"
    /\ \E r \in PostFormResults :
         LET res == GetAccessTokenResult(r)
         IN  /\ Log(s, Request("POST", "token", "", "", 0, 0, <<>>,
                               IF r.err THEN "transport" ELSE r.Body, ""))
             /\ ret' = [ret EXCEPT ![s].token = res]
             /\ Goto(s, IF res.state = "panic" \/ res.isNil
                         THEN "panic" ELSE "GetUserInfo")
    /\ UNCHANGED <<handler, total, offset, items, batch, addTrackResponse,
                   out, failed, srv>>

\* GetUserInfo, and the rest of authCallback: it logs the error, reads
\* userInfoResponse.Id whatever was returned, and redirects.
GetUserInfo(s) ==
    /\ pc[s] = "GetUserInfo"
    /\ \E o \in CallOutcomes :
         LET res == GetUserInfoResult(o)
         IN  /\ Log(s, Request("GET", "me", "", "", 0, 0, <<>>, o, ""))
             /\ ret' = [ret EXCEPT ![s].user = res]
             /\ IF res.isNil
                THEN Goto(s, "panic") /\ UNCHANGED out
                ELSE /\ Goto(s, "done")
                     /\ Write(s, <<[tag |-> "redirect",
                                    val |-> "/listplaylists/" \o res.val.Id \o "/"
                                            \o ret[s].token.val.AccessToken]>>)
    /\ UNCHANGED <<handler, total, offset, items, batch, addTrackResponse,
                   failed, srv>>

(***************************************************************************)
(* GetUserPlaylists, and listPlaylists around it.                          *)
(***************************************************************************)
\* GetUserPlaylistsPass advancing the offset by one, not by the limit.
GetUserPlaylistsPassByOne(playlistItems, off, outcome, page) ==
    IF outcome = "transport"
    THEN [exit |-> "return", items |-> <<>>, err |-> ErrTransport, offset |-> off]
    ELSE LET playlistResponse == UnmarshalPage(outcome, page)
             appended == playlistItems \o playlistResponse.Items
         IN  IF Len(appended) >= playlistResponse.Total
             THEN [exit |-> "return", items |-> appended, err |-> ErrNil,
                   offset |-> off]
             ELSE [exit |-> "loop", items |-> appended, err |-> ErrNil,
                   offset |-> off + 1]

\* One pass of the loop of GetUserPlaylists: the GET at offset `off` had
\* this outcome and the service answered `page`.  int32(len(...)) is the
\* length itself at these sizes.
GetUserPlaylistsPass(playlistItems, off, outcome, page) ==
    IF outcome = "transport"
    THEN [exit |-> "return", items |-> <<>>, err |-> ErrTransport, offset |-> off]
    ELSE LET playlistResponse == UnmarshalPage(outcome, page)
             appended == playlistItems \o playlistResponse.Items
         IN  IF Len(appended) >= playlistResponse.Total
             THEN [exit |-> "return", items |-> appended, err |-> ErrNil,
                   offset |-> off]
             ELSE [exit |-> "loop", items |-> appended, err |-> ErrNil,
                   offset |-> off + limit]

\* listPlaylists up to the first pass of the loop of GetUserPlaylists.
listPlaylists(s) ==
    /\ pc[s] = "idle"
    /\ \E T \in 0..MaxPlaylists : total' = [total EXCEPT ![s] = T]
    /\ handler' = [handler EXCEPT ![s] = "listPlaylists"]
    /\ offset' = [offset EXCEPT ![s] = 0]
    /\ Accumulate(s, <<>>)
    /\ Goto(s, "GetUserPlaylists")
    /\ UNCHANGED <<reqLog, batch, addTrackResponse, ret, out, failed, srv>>

\* The two links listPlaylists writes for every playlist.
PlaylistLinks(playlistItems) ==
    [k \in 1..(2 * Len(playlistItems)) |->
        [tag |-> IF k % 2 = 1 THEN "tracks" ELSE "duplicate",
         val |-> playlistItems[(k + 1) \div 2].Id]]

\* One pass of the loop of GetUserPlaylists; when it returns, the rest of
\* listPlaylists: it logs the error and lists what was returned.
GetUserPlaylistsOn(s, o, page) ==
    LET pass == GetUserPlaylistsPass(items[s], offset[s], o, page)
    IN  /\ pc[s] = "GetUserPlaylists"
        /\ Cardinality(Calls(s, "playlists")) < MaxRequests
        /\ Log(s, Request("GET", "playlists", "creator", "", offset[s],
                          limit, <<>>, o, ""))
        /\ offset' = [offset EXCEPT ![s] = pass.offset]
        /\ Accumulate(s, pass.items)
        /\ IF pass.exit = "return"
           THEN /\ ret' = [ret EXCEPT ![s].playlists =
                               ReturnedItems(pass.items, pass.err)]
                /\ Write(s, PlaylistLinks(pass.items))
                /\ Goto(s, "done")
           ELSE UNCHANGED <<ret, out, pc>>
        /\ UNCHANGED <<handler, batch, addTrackResponse, failed, srv>>

\* The pass against the service that holds a fixed list of playlists.
GetUserPlaylists(s) ==
    /\ \E o \in PageOutcomes :
          /\ MayFailPage(s, "playlists", o)
          /\ GetUserPlaylistsOn(s, o, ServerPage(ServerPlaylists(total[s]),
                                                 limit, offset[s]))
    /\ UNCHANGED total

(***************************************************************************)
(* duplicatePlaylist and the library functions it calls.                   *)
(***************************************************************************)
\* strings.Split(r.URL.Path, "/") of /duplicate/{owner}/{creator}/{token}/{id}
Parts == <<"", "duplicate", "owner", "creator", "tok", SourcePlaylist.Id>>

playlistOwner == Parts[3]
playlistCreator == Parts[4]
playlistId == Parts[6]

\* dupNext with the destination created before the source tracks are read.
dupNextCreateFirst(after) ==
    CASE after = "GetPlaylistInfo"      -> "CreatePlaylist"
      [] after = "CreatePlaylist"       -> "GetTracksForPlaylist"
      [] after = "GetTracksForPlaylist" -> "AddTracksToPlaylist"
      [] after = "AddTracksToPlaylist"  -> "done"

\* The library call duplicatePlaylist makes after the call `after` has
\* returned and the handler has not taken an error exit.
dupNext(after) ==
    CASE after = "GetPlaylistInfo"      -> "GetTracksForPlaylist"
      [] after = "GetTracksForPlaylist" -> "CreatePlaylist"
      [] after = "CreatePlaylist"       -> "AddTracksToPlaylist"
      [] after = "AddTracksToPlaylist"  -> "done"

\* duplicatePlaylist up to its call of GetPlaylistInfo.
duplicatePlaylist(s) ==
    /\ pc[s] = "idle"
    /\ \E T \in 0..MaxTracks : total' = [total EXCEPT ![s] = T]
    /\ handler' = [handler EXCEPT ![s] = "duplicatePlaylist"]
    /\ Write(s, [n \in 1..Len(Parts) |-> [tag |-> "path", val |-> Parts[n]]])
    /\ Goto(s, "GetPlaylistInfo")
    /\ UNCHANGED <<reqLog, offset, items, batch, addTrackResponse, ret,
                   failed, srv>>

\* What GetPlaylistInfo returns for one outcome of its GET.
GetPlaylistInfoResult(outcome, playlist) ==
    IF outcome = "transport"
    THEN Returned(ZeroPlaylist, ErrTransport)
    ELSE Returned(UnmarshalPlaylist(outcome, playlist).val, ErrNil)

\* GetPlaylistInfo, and duplicatePlaylist up to the first pass of the loop
\* of GetTracksForPlaylist.
GetPlaylistInfo(s) ==
    /\ pc[s] = "GetPlaylistInfo"
    /\ \E o \in CallOutcomes :
         LET res == GetPlaylistInfoResult(o, SourcePlaylist)
         IN  /\ Log(s, Request("GET", "info", playlistOwner, playlistId, 0, 0,
                               <<>>, o, ""))
             /\ ret' = [ret EXCEPT ![s].info = res]
             /\ IF res.err # ErrNil
                THEN /\ failed' = [failed EXCEPT ![s] = TRUE]
                     /\ Goto(s, "done")
                     /\ UNCHANGED <<offset, items>>
                ELSE /\ Goto(s, dupNext("GetPlaylistInfo"))
                     /\ offset' = [offset EXCEPT ![s] = 0]
                     /\ Accumulate(s, <<>>)
                     /\ UNCHANGED failed
    /\ UNCHANGED <<handler, total, batch, addTrackResponse, out, srv>>

\* for _, item := range tracklistResponse.Items: item.Track
TracksOf(Items) == [k \in 1..Len(Items) |-> Items[k].Track]

\* GetTracksForPlaylistPass with the `offset += limit` left out.
GetTracksForPlaylistPassStale(tracks, off, outcome, page) ==
    IF outcome = "transport"
    THEN [exit |-> "return", items |-> <<>>, err |-> ErrTransport, offset |-> off]
    ELSE LET tracklistResponse == UnmarshalPage(outcome, page)
             appended == tracks \o TracksOf(tracklistResponse.Items)
         IN  IF Len(appended) >= tracklistResponse.Total
             THEN [exit |-> "return", items |-> appended, err |-> ErrNil,
                   offset |-> off]
             ELSE [exit |-> "loop", items |-> appended, err |-> ErrNil,
                   offset |-> off]

\* GetTracksForPlaylistPass returning what it has accumulated along with
\* the transport error.
GetTracksForPlaylistPassKeep(tracks, off, outcome, page) ==
    IF outcome = "transport"
    THEN [exit |-> "return", items |-> tracks, err |-> ErrTransport, offset |-> off]
    ELSE LET tracklistResponse == UnmarshalPage(outcome, page)
             appended == tracks \o TracksOf(tracklistResponse.Items)
         IN  IF Len(appended) >= tracklistResponse.Total
             THEN [exit |-> "return", items |-> appended, err |-> ErrNil,
                   offset |-> off]
             ELSE [exit |-> "loop", items |-> appended, err |-> ErrNil,
                   offset |-> off + limit]

\* GetTracksForPlaylistPass returning the error of resp.Unmarshal.
GetTracksForPlaylistPassAbort(tracks, off, outcome, page) ==
    IF outcome = "transport"
    THEN [exit |-> "return", items |-> <<>>, err |-> ErrTransport, offset |-> off]
    ELSE LET tracklistResponse == UnmarshalPage(outcome, page)
             appended == tracks \o TracksOf(tracklistResponse.Items)
         IN  IF tracklistResponse.err # ErrNil
             THEN [exit |-> "return", items |-> <<>>,
                   err |-> tracklistResponse.err, offset |-> off]
             ELSE IF Len(appended) >= tracklistResponse.Total
             THEN [exit |-> "return", items |-> appended, err |-> ErrNil,
                   offset |-> off]
             ELSE [exit |-> "loop", items |-> appended, err |-> ErrNil,
                   offset |-> off + limit]

\* GetTracksForPlaylistPass with > for >= in the stop test.
GetTracksForPlaylistPassStrict(tracks, off, outcome, page) ==
    IF outcome = "transport"
    THEN [exit |-> "return", items |-> <<>>, err |-> ErrTransport, offset |-> off]
    ELSE LET tracklistResponse == UnmarshalPage(outcome, page)
             appended == tracks \o TracksOf(tracklistResponse.Items)
         IN  IF Len(appended) > tracklistResponse.Total
             THEN [exit |-> "return", items |-> appended, err |-> ErrNil,
                   offset |-> off]
             ELSE [exit |-> "loop", items |-> appended, err |-> ErrNil,
                   offset |-> off + limit]

\* GetTracksForPlaylistPass stopping at a page shorter than the limit,
\* whatever total the page reports.
GetTracksForPlaylistPassShort(tracks, off, outcome, page) ==
    IF outcome = "transport"
    THEN [exit |-> "return", items |-> <<>>, err |-> ErrTransport, offset |-> off]
    ELSE LET tracklistResponse == UnmarshalPage(outcome, page)
             appended == tracks \o TracksOf(tracklistResponse.Items)
         IN  IF Len(tracklistResponse.Items) < limit
             THEN [exit |-> "return", items |-> appended, err |-> ErrNil,
                   offset |-> off]
             ELSE [exit |-> "loop", items |-> appended, err |-> ErrNil,
                   offset |-> off + limit]

\* One pass of the loop of GetTracksForPlaylist: the GET at offset `off`
\* had this outcome and the service answered `page`.
GetTracksForPlaylistPass(tracks, off, outcome, page) ==
    IF outcome = "transport"
    THEN [exit |-> "return", items |-> <<>>, err |-> ErrTransport, offset |-> off]
    ELSE LET tracklistResponse == UnmarshalPage(outcome, page)
             appended == tracks \o TracksOf(tracklistResponse.Items)
         IN  IF Len(appended) >= tracklistResponse.Total
             THEN [exit |-> "return", items |-> appended, err |-> ErrNil,
                   offset |-> off]
             ELSE [exit |-> "loop", items |-> appended, err |-> ErrNil,
                   offset |-> off + limit]

\* One pass of the loop of GetTracksForPlaylist; when it returns,
\* duplicatePlaylist up to its call of CreatePlaylist: the error is not
\* looked at.
GetTracksForPlaylistOn(s, o, page) ==
    LET pass == GetTracksForPlaylistPass(items[s], offset[s], o, page)
    IN  /\ pc[s] = "GetTracksForPlaylist"
        /\ Cardinality(Calls(s, "tracks")) < MaxRequests
        /\ Log(s, Request("GET", "tracks", playlistOwner, playlistId,
                          offset[s], limit, <<>>, o, ""))
        /\ offset' = [offset EXCEPT ![s] = pass.offset]
        /\ Accumulate(s, pass.items)
        /\ IF pass.exit = "return"
           THEN /\ ret' = [ret EXCEPT ![s].tracks =
                               ReturnedItems(pass.items, pass.err)]
                /\ Write(s, <<[tag |-> "Original",
                               val |-> ret[s].info.val.Id \o "-"
                                       \o ret[s].info.val.Name]>>)
                /\ Goto(s, dupNext("GetTracksForPlaylist"))
           ELSE UNCHANGED <<ret, out, pc>>
        /\ UNCHANGED <<handler, batch, addTrackResponse, failed, srv>>

\* The pass against the service that holds a fixed list of tracks.
GetTracksForPlaylist(s) ==
    /\ \E o \in PageOutcomes :
          /\ MayFailPage(s, "tracks", o)
          /\ GetTracksForPlaylistOn(s, o, ServerPage(ServerTracks(total[s]),
                                                     limit, offset[s]))
    /\ UNCHANGED total

\* The remote service creates a playlist for `username`.
ServerCreate(username, playlistName) ==
    [Id |-> "new" \o ToString(Len(srv) + 1), owner |-> username,
     Name |-> playlistName, uris |-> <<>>]

\* CreatePlaylistResult returning the copy the service already holds, when
\* it holds one, in place of the playlist just created.
CreatePlaylistResultReuse(outcome, playlist) ==
    IF outcome = "transport"
    THEN Returned(ZeroPlaylist, ErrTransport)
    ELSE IF srv # <<>>
         THEN Returned([Id |-> srv[1].Id, Name |-> srv[1].Name], ErrNil)
         ELSE Returned(UnmarshalPlaylist(outcome, playlist).val, ErrNil)

\* What CreatePlaylist returns for one outcome of its POST.
CreatePlaylistResult(outcome, playlist) ==
    IF outcome = "transport"
    THEN Returned(ZeroPlaylist, ErrTransport)
    ELSE Returned(UnmarshalPlaylist(outcome, playlist).val, ErrNil)

\* Whether the remote service carried a call out: it did when it answers
\* ok, it did not when it rejects, and either when the answer is lost or
\* garbled.
Applies(outcome, applied) ==
    /\ outcome = "ok" => applied
    /\ outcome = "rejected" => ~applied

\* CreatePlaylist, and duplicatePlaylist up to its call of
\* AddTracksToPlaylist: the error is not looked at.
CreatePlaylist(s) ==
    /\ pc[s] = "CreatePlaylist"
    /\ \E o \in CallOutcomes, applied \in BOOLEAN :
         LET created == ServerCreate(playlistCreator,
                                     "Copy of " \o ret[s].info.val.Name)
             res == CreatePlaylistResult(o, [Id |-> created.Id,
                                             Name |-> created.Name])
         IN  /\ Applies(o, applied)
             /\ Log(s, Request("POST", "create", playlistCreator, "", 0, 0,
                               <<>>, o, ""))
             /\ srv' = IF applied THEN Append(srv, created) ELSE srv
             /\ ret' = [ret EXCEPT ![s].create = res]
             /\ Write(s, <<[tag |-> "Copy",
                            val |-> res.val.Id \o "-" \o res.val.Name]>>)
    /\ batch' = [batch EXCEPT ![s] = 0]
    /\ addTrackResponse' = [addTrackResponse EXCEPT
                               ![s] = ZeroAddTrackToPlaylistResponse]
    /\ Goto(s, dupNext("CreatePlaylist"))
    /\ UNCHANGED <<handler, total, offset, items, failed>>

\* MoreBatches with <= for <.
MoreBatchesInclusive(tracks, i) == i <= Len(tracks)

\* The test of the loop of AddTracksToPlaylist: i < len(tracks).
MoreBatches(tracks, i) == i < Len(tracks)

\* BatchEnd with the slice of a full batch one element too long.
BatchEndLong(tracks, i) ==
    LET x == Len(tracks) - i
    IN  IF x > BatchSize THEN i + BatchSize + 1 ELSE i + (Len(tracks) - i)

\* BatchUris taking every batch from the head of the list.
BatchUrisHead(tracks, i) ==
    [k \in 1..(Min(Len(tracks) - i, BatchSize)) |->
        "spotify:track:" \o tracks[k].Id]

\* The end x of the slice tracks[i:x] of one batch.
BatchEnd(tracks, i) ==
    LET x == Len(tracks) - i
    IN  IF x > BatchSize THEN i + BatchSize ELSE i + (Len(tracks) - i)

\* addTracksRequest.Uris for the batch that starts at i.
BatchUris(tracks, i) ==
    [k \in 1..(BatchEnd(tracks, i) - i) |-> "spotify:track:" \o tracks[i + k].Id]

\* The position in srv of the playlist a write addresses, 0 if there is none.
ServerFind(username, id) ==
    IF \E k \in DOMAIN srv : srv[k].Id = id /\ srv[k].owner = username
    THEN CHOOSE k \in DOMAIN srv : srv[k].Id = id /\ srv[k].owner = username
    ELSE 0

\* The snapshot id of a playlist after a write.
ServerSnapshot(id, uris) == id \o "@" \o ToString(Len(uris))

\* AddTracksToPlaylistPass keeping the first batch's response.
AddTracksToPlaylistPassFirst(current, i, outcome, snapshot) ==
    IF outcome = "transport"
    THEN [exit |-> "return", val |-> ZeroAddTrackToPlaylistResponse,
          err |-> ErrTransport, i |-> i, addTrackResponse |-> current]
    ELSE LET u == UnmarshalSnapshot(outcome, snapshot)
             kept == IF current = ZeroAddTrackToPlaylistResponse
                     THEN u.val ELSE current
         IN  IF u.err # ErrNil
             THEN [exit |-> "return", val |-> ZeroAddTrackToPlaylistResponse,
                   err |-> u.err, i |-> i, addTrackResponse |-> u.val]
             ELSE [exit |-> "loop", val |-> kept, err |-> ErrNil,
                   i |-> i + BatchSize, addTrackResponse |-> kept]

\* AddTracksToPlaylistPass returning the last response it has along with
\* the error.
AddTracksToPlaylistPassPartial(current, i, outcome, snapshot) ==
    IF outcome = "transport"
    THEN [exit |-> "return", val |-> current,
          err |-> ErrTransport, i |-> i, addTrackResponse |-> current]
    ELSE LET u == UnmarshalSnapshot(outcome, snapshot)
         IN  IF u.err # ErrNil
             THEN [exit |-> "return", val |-> current,
                   err |-> u.err, i |-> i, addTrackResponse |-> u.val]
             ELSE [exit |-> "loop", val |-> u.val, err |-> ErrNil,
                   i |-> i + BatchSize, addTrackResponse |-> u.val]

\* One pass of the loop of AddTracksToPlaylist after its POST.
AddTracksToPlaylistPass(current, i, outcome, snapshot) ==
    IF outcome = "transport"
    THEN [exit |-> "return", val |-> ZeroAddTrackToPlaylistResponse,
          err |-> ErrTransport, i |-> i, addTrackResponse |-> current]
    ELSE LET u == UnmarshalSnapshot(outcome, snapshot)
         IN  IF u.err # ErrNil
             THEN [exit |-> "return", val |-> ZeroAddTrackToPlaylistResponse,
                   err |-> u.err, i |-> i, addTrackResponse |-> u.val]
             ELSE [exit |-> "loop", val |-> u.val, err |-> ErrNil,
                   i |-> i + BatchSize, addTrackResponse |-> u.val]

\* The end of duplicatePlaylist, after AddTracksToPlaylist has returned.
dupFinish(s, res) ==
    /\ ret' = [ret EXCEPT ![s].add = res]
    /\ Goto(s, dupNext("AddTracksToPlaylist"))
    /\ IF res.err # ErrNil
       THEN failed' = [failed EXCEPT ![s] = TRUE] /\ UNCHANGED out
       ELSE /\ Write(s, <<[tag |-> "Snapshot ID", val |-> res.val.SnapshotId]>>)
            /\ UNCHANGED failed

\* newPlaylist with the playlist read from the source in place of the one
\* created.
newPlaylistSource(s) == ret[s].info.val

\* The playlist duplicatePlaylist passes to AddTracksToPlaylist: the one
\* CreatePlaylist returned.
newPlaylist(s) == ret[s].create.val

\* The loop of AddTracksToPlaylist has a batch left: one POST.
AddTracksToPlaylistBatch(s) ==
    /\ pc[s] = "AddTracksToPlaylist"
    /\ MoreBatches(ret[s].tracks.items, batch[s])
    /\ \E o \in CallOutcomes, applied \in BOOLEAN :
         LET playlist == newPlaylist(s)
             uris == BatchUris(ret[s].tracks.items, batch[s])
             at == ServerFind(playlistCreator, playlist.Id)
             written == IF at = 0 THEN <<>> ELSE srv[at].uris \o uris
             snapshot == ServerSnapshot(playlist.Id, written)
             pass == AddTracksToPlaylistPass(addTrackResponse[s], batch[s], o,
                                             snapshot)
         IN  /\ Applies(o, applied)
             /\ applied => at # 0
             /\ MayFail(s, "add", o)
             /\ Log(s, Request("POST", "add", playlistCreator, playlist.Id,
                               0, 0, uris, o,
                               IF o = "ok" THEN snapshot ELSE ""))
             /\ srv' = IF applied THEN [srv EXCEPT ![at].uris = written]
                                  ELSE srv
             /\ batch' = [batch EXCEPT ![s] = pass.i]
             /\ addTrackResponse' = [addTrackResponse EXCEPT
                                        ![s] = pass.addTrackResponse]
             /\ IF pass.exit = "return"
                THEN dupFinish(s, Returned(pass.val, pass.err))
                ELSE UNCHANGED <<ret, out, pc, failed>>
    /\ UNCHANGED <<handler, total, offset, items>>

\* The loop of AddTracksToPlaylist has no batch left: it returns.
AddTracksToPlaylistReturn(s) ==
    /\ pc[s] = "AddTracksToPlaylist"
    /\ ~MoreBatches(ret[s].tracks.items, batch[s])
    /\ dupFinish(s, Returned(addTrackResponse[s], ErrNil))
    /\ UNCHANGED <<handler, total, reqLog, offset, items, batch,
                   addTrackResponse, srv>>

\* One step of the handler invocation of session s.
Step(s) ==
    \/ authCallback(s)
    \/ GetAccessToken(s)
    \/ GetUserInfo(s)
    \/ listPlaylists(s)
    \/ GetUserPlaylists(s)
    \/ duplicatePlaylist(s)
    \/ GetPlaylistInfo(s)
    \/ GetTracksForPlaylist(s)
    \/ CreatePlaylist(s)
    \/ AddTracksToPlaylistBatch(s)
    \/ AddTracksToPlaylistReturn(s)

\* The sessions that run a handler: one request at a time.
Active == {"s1"}

Next == \E s \in Active : Step(s)

Spec == Init /\ [][Next]_vars

(***************************************************************************)
(* Two handler invocations at once, their steps interleaved in any order:  *)
(* the server handles every request on a goroutine of its own.  The        *)
(* service answers every call ok, and the two invocations read collections *)
(* of the same size.                                                       *)
(***************************************************************************)
\* Every remote call the session has issued was answered ok.
EveryCallOk(s) == \A n \in DOMAIN reqLog[s] : reqLog[s][n].outcome = "ok"

SameSize ==
    /\ \A a \in Sessions : total[a] <= MaxTracksTwo
    /\ \A a, b \in Sessions :
          (handler[a] # "none" /\ handler[b] # "none") => total[a] = total[b]

ReliableStep(s) ==
    /\ \/ listPlaylists(s)
       \/ GetUserPlaylists(s)
       \/ duplicatePlaylist(s)
       \/ GetPlaylistInfo(s)
       \/ GetTracksForPlaylist(s)
       \/ CreatePlaylist(s)
       \/ AddTracksToPlaylistBatch(s)
       \/ AddTracksToPlaylistReturn(s)
    /\ EveryCallOk(s)'
    /\ SameSize'

NextTwo == \E s \in Sessions : ReliableStep(s)

SpecTwo == Init /\ [][NextTwo]_vars

(***************************************************************************)
(* The handlers against a service that makes progress: while the           *)
(* accumulated count is below the total it last reported, a page request   *)
(* either fails in the transport or is answered with at least one item,    *)
(* and the total it reports never grows.  total[s] is the total last       *)
(* reported to s.  The goroutine of a handler keeps running and every      *)
(* request is answered, hence the weak fairness.                           *)
(***************************************************************************)
ProgressOutcomes == {"ok", "transport"}

\* A page of c items, starting at the requested offset, reporting total t.
ProgressPage(kind, off, c, t) ==
    [Items |-> [k \in 1..c |-> IF kind = "tracks" THEN ServerTrack(off + k)
                                                  ELSE ServerPlaylist(off + k)],
     Total |-> t]

MakesProgress(s, c, t) ==
    /\ t <= total[s]
    /\ Len(items[s]) < total[s] => c >= 1

Reported(s, o, t) == total' = [total EXCEPT ![s] = IF o = "ok" THEN t ELSE @]

GetUserPlaylistsProgress(s) ==
    \E o \in ProgressOutcomes, c \in 0..limit, t \in 0..MaxProgressTotal :
        /\ MakesProgress(s, c, t)
        /\ GetUserPlaylistsOn(s, o, ProgressPage("playlists", offset[s], c, t))
        /\ Reported(s, o, t)

GetTracksForPlaylistProgress(s) ==
    \E o \in ProgressOutcomes, c \in 0..limit, t \in 0..MaxProgressTotal :
        /\ MakesProgress(s, c, t)
        /\ GetTracksForPlaylistOn(s, o, ProgressPage("tracks", offset[s], c, t))
        /\ Reported(s, o, t)

\* Every call of s that is not a page request was answered ok.
OtherCallsOk(s) ==
    \A n \in DOMAIN reqLog[s] :
        reqLog[s][n].kind \in {"tracks", "playlists"}
            \/ reqLog[s][n].outcome = "ok"

ProgressStep(s) ==
    /\ \/ listPlaylists(s)
       \/ GetUserPlaylistsProgress(s)
       \/ duplicatePlaylist(s)
       \/ GetPlaylistInfo(s)
       \/ GetTracksForPlaylistProgress(s)
       \/ CreatePlaylist(s)
       \/ AddTracksToPlaylistBatch(s)
       \/ AddTracksToPlaylistReturn(s)
    /\ total'[s] <= MaxProgressTotal
    /\ OtherCallsOk(s)'

NextProgress == \E s \in Active : ProgressStep(s)

SpecProgress == Init /\ [][NextProgress]_vars /\ WF_vars(NextProgress)

(***************************************************************************)
(* Vocabulary of the properties.                                           *)
(***************************************************************************)
\* Every call of this kind the session has issued was answered ok.
AllOk(s, kind) == \A n \in Calls(s, kind) : reqLog[s][n].outcome = "ok"

\* The call at position n is the last one of its kind.
LastOfKind(s, n) == \A m \in Calls(s, reqLog[s][n].kind) : m <= n

\* What the fetch of this kind has returned.
FetchRet(s, kind) == IF kind = "tracks" THEN ret[s].tracks ELSE ret[s].playlists

\* The collection the service holds for the fetch of this kind.
ServerList(s, kind) ==
    IF kind = "tracks" THEN TracksOf(ServerTracks(total[s]))
                       ELSE ServerPlaylists(total[s])

FetchKinds == {"tracks", "playlists"}

\* The envelope the library decoded from the answer to the page request at
\* position n of the session's log (no transport error).
Envelope(s, n) ==
    LET r == reqLog[s][n]
        list == IF r.kind = "tracks" THEN ServerTracks(total[s])
                                     ELSE ServerPlaylists(total[s])
    IN  UnmarshalPage(r.outcome, ServerPage(list, r.limit, r.offset))

\* The place of a kind of call in the order of duplicatePlaylist.
Rank(kind) ==
    CASE kind = "info" -> 1 [] kind = "tracks" -> 2
      [] kind = "create" -> 3 [] kind = "add" -> 4

\* The items the fetch of this kind has appended from the answers to its
\* page requests among the first n calls of the session.
RECURSIVE Accumulated(_, _, _)
Accumulated(s, kind, n) ==
    IF n = 0 THEN <<>>
    ELSE IF reqLog[s][n].kind = kind /\ reqLog[s][n].outcome # "transport"
         THEN Accumulated(s, kind, n - 1)
                \o (IF kind = "tracks" THEN TracksOf(Envelope(s, n).Items)
                                       ELSE Envelope(s, n).Items)
         ELSE Accumulated(s, kind, n - 1)

\* The label of the library function that makes the calls of a kind.
FetchLabel(kind) ==
    IF kind = "tracks" THEN "GetTracksForPlaylist" ELSE "GetUserPlaylists"

\* The URIs of the tracks of a source playlist of T tracks, in its order.
SourceUris(T) == [k \in 1..T |-> "spotify:track:" \o ServerTrack(k).Track.Id]

\* The URIs of the write calls among the first n calls of the session, in
\* the order they were sent.
RECURSIVE SentUris(_, _)
SentUris(s, n) ==
    IF n = 0 THEN <<>>
    ELSE IF reqLog[s][n].kind = "add"
         THEN SentUris(s, n - 1) \o reqLog[s][n].uris
         ELSE SentUris(s, n - 1)

\* The first call of a kind in the session's log.
FirstOfKind(s, kind) == CHOOSE n \in Calls(s, kind) : \A m \in Calls(s, kind) : n <= m

IsPrefix(a, b) == Len(a) <= Len(b) /\ SubSeq(b, 1, Len(a)) = a

\* The URIs of the write calls among the first n calls of the session that
\* the service accepted, in the order they were sent.
RECURSIVE AcceptedUris(_, _)
AcceptedUris(s, n) ==
    IF n = 0 THEN <<>>
    ELSE IF reqLog[s][n].kind = "add" /\ reqLog[s][n].outcome = "ok"
         THEN AcceptedUris(s, n - 1) \o reqLog[s][n].uris
         ELSE AcceptedUris(s, n - 1)

\* The positions the handler wrote a line with this tag at.
Written(s, tag) == {k \in DOMAIN out[s] : out[s][k].tag = tag}

(***************************************************************************)
(* C1: against a service that answers every page request with the         *)
(* matching slice of a fixed list of T items and total = T, a fetch        *)
(* (GetUserPlaylists, GetTracksForPlaylist) that has returned returns      *)
(* exactly the T items in the service's order, with no error.              *)
(***************************************************************************)
C1_FetchReturnsServerList ==
    \A s \in Sessions : \A kind \in FetchKinds :
        (FetchRet(s, kind).state = "returned" /\ AllOk(s, kind))
        => /\ FetchRet(s, kind).err = ErrNil
           /\ Len(FetchRet(s, kind).items) = total[s]
           /\ FetchRet(s, kind).items = ServerList(s, kind)

\* A fetch of several pages, the last one short, has returned.
C1_Witness ==
    \E s \in Sessions :
        /\ ret[s].tracks.state = "returned"
        /\ AllOk(s, "tracks")
        /\ total[s] = 2 * limit + 2
        /\ Cardinality(Calls(s, "tracks")) = 3

(***************************************************************************)
(* C2: when the service accepts every write, AddTracksToPlaylist called    *)
(* with N tracks issues exactly ceil(N/100) POSTs, each with 1 to 100      *)
(* URIs, each URI "spotify:track:" followed by the id of an input track.   *)
(***************************************************************************)
C2_BatchCountAndSize ==
    \A s \in Sessions :
        (ret[s].add.state = "returned" /\ AllOk(s, "add"))
        => LET tracks == ret[s].tracks.items
               uriOf == {"spotify:track:" \o tracks[k].Id : k \in DOMAIN tracks}
           IN  /\ Cardinality(Calls(s, "add")) = CeilDiv(Len(tracks), 100)
               /\ \A n \in Calls(s, "add") :
                     /\ Len(reqLog[s][n].uris) >= 1
                     /\ Len(reqLog[s][n].uris) <= 100
                     /\ \A k \in DOMAIN reqLog[s][n].uris :
                           reqLog[s][n].uris[k] \in uriOf

\* Three batches, the last of a single URI, were sent and accepted.
C2_Witness ==
    \E s \in Sessions :
        /\ ret[s].add.state = "returned"
        /\ AllOk(s, "add")
        /\ Len(ret[s].tracks.items) = 2 * BatchSize + 1
        /\ Cardinality(Calls(s, "add")) = 3

(***************************************************************************)
(* C3: when every remote call succeeds, duplicating a source of N tracks   *)
(* takes exactly one create call and ceil(N/100) write calls (for N = 150, *)
(* writes of 100 and of 50 URIs), and the snapshot id written out is the   *)
(* one the last write returned, not that of an earlier write.              *)
(***************************************************************************)
C3_DuplicationCalls ==
    \A s \in Sessions :
        (handler[s] = "duplicatePlaylist" /\ pc[s] = "done" /\ EveryCallOk(s))
        => LET adds == Calls(s, "add")
               last == Len(reqLog[s])
           IN  /\ Cardinality(Calls(s, "create")) = 1
               /\ Cardinality(adds) = CeilDiv(total[s], 100)
               /\ total[s] = 150 =>
                     /\ Len(reqLog[s][last - 1].uris) = 100
                     /\ Len(reqLog[s][last].uris) = 50
               /\ Cardinality(Written(s, "Snapshot ID")) = 1
               /\ adds # {} =>
                     /\ reqLog[s][last].kind = "add"
                     /\ \A k \in Written(s, "Snapshot ID") :
                           /\ out[s][k].val = reqLog[s][last].snapshot
                           /\ \A n \in adds \ {last} :
                                 out[s][k].val # reqLog[s][n].snapshot

\* The duplication of 150 tracks has finished with every call answered ok.
C3_Witness ==
    \E s \in Sessions :
        /\ handler[s] = "duplicatePlaylist"
        /\ pc[s] = "done"
        /\ EveryCallOk(s)
        /\ total[s] = 150
        /\ Cardinality(Calls(s, "add")) = 2

(***************************************************************************)
(* C4: in duplicatePlaylist a step that fails ends the workflow as failed  *)
(* and no later step runs: no create call after a track fetch that         *)
(* returned an error, no write call after a create that returned an error. *)
(***************************************************************************)
C4_FailureStopsWorkflow ==
    \A s \in Sessions :
        handler[s] = "duplicatePlaylist"
        => /\ ret[s].info.err # ErrNil =>
                 Calls(s, "tracks") \cup Calls(s, "create") \cup Calls(s, "add") = {}
           /\ ret[s].tracks.err # ErrNil =>
                 Calls(s, "create") \cup Calls(s, "add") = {}
           /\ ret[s].create.err # ErrNil => Calls(s, "add") = {}
           /\ (pc[s] = "done" /\ \/ ret[s].info.err # ErrNil
                                  \/ ret[s].tracks.err # ErrNil
                                  \/ ret[s].create.err # ErrNil
                                  \/ ret[s].add.err # ErrNil) => failed[s]

(***************************************************************************)
(* C5: when the GET of a page of GetUserPlaylists or GetTracksForPlaylist  *)
(* fails in the transport, whichever page it is, the function issues no    *)
(* further request and returns an error and no items.                      *)
(***************************************************************************)
C5_TransportErrorAborts ==
    \A s \in Sessions : \A kind \in FetchKinds :
        \A n \in Calls(s, kind) :
            reqLog[s][n].outcome = "transport"
            => /\ LastOfKind(s, n)
               /\ FetchRet(s, kind).state = "returned"
               /\ FetchRet(s, kind).err # ErrNil
               /\ FetchRet(s, kind).items = <<>>

\* The third page of a fetch failed in the transport, after two pages
\* of items.
C5_Witness ==
    \E s \in Sessions :
        /\ Cardinality(Calls(s, "tracks")) = 3
        /\ \E n \in Calls(s, "tracks") :
              /\ reqLog[s][n].outcome = "transport"
              /\ reqLog[s][n].offset = 2 * limit
              /\ \A m \in Calls(s, "tracks") \ {n} : reqLog[s][m].outcome = "ok"
        /\ ret[s].tracks.state = "returned"

(***************************************************************************)
(* C6: when the POST of batch k of AddTracksToPlaylist fails (transport    *)
(* error or undecodable response) the function sends no further batch and  *)
(* returns an error with an empty result, which is not the snapshot id of  *)
(* an earlier batch; the earlier batches stay written on the service.      *)
(***************************************************************************)
C6_BatchFailureAborts ==
    \A s \in Sessions : \A n \in Calls(s, "add") :
        reqLog[s][n].outcome \in {"transport", "syntax"}
        => LET at == ServerFind(reqLog[s][n].user, reqLog[s][n].id)
               earlier == AcceptedUris(s, n - 1)
           IN  /\ LastOfKind(s, n)
               /\ ret[s].add.state = "returned"
               /\ ret[s].add.err # ErrNil
               /\ ret[s].add.val = ZeroAddTrackToPlaylistResponse
               /\ Written(s, "Snapshot ID") = {}
               /\ earlier # <<>> => /\ at # 0
                                    /\ IsPrefix(earlier, srv[at].uris)

\* The second batch failed after the service had accepted the first.
C6_Witness ==
    \E s \in Sessions : \E n \in Calls(s, "add") :
        /\ reqLog[s][n].outcome \in {"transport", "syntax"}
        /\ Len(AcceptedUris(s, n - 1)) = BatchSize
        /\ ret[s].add.state = "returned"

(***************************************************************************)
(* C7: GetAccessToken returns an error and no token when the token         *)
(* endpoint answers with a non-2xx status or with a body that is no token  *)
(* document; it returns a token and no error only for a 2xx answer that    *)
(* decodes.                                                                *)
(***************************************************************************)
C7_TokenOnlyFrom2xx ==
    \A s \in Sessions :
        LET t == ret[s].token
        IN  (t.state = "returned" /\ ~t.resp.err)
            => /\ (~Is2xx(t.resp.StatusCode) \/ t.resp.Body # "token")
                     => (t.err # ErrNil /\ t.isNil)
               /\ (t.err = ErrNil /\ ~t.isNil)
                     => (Is2xx(t.resp.StatusCode) /\ t.resp.Body = "token")

(***************************************************************************)
(* C8: when the POST of the token exchange fails and there is no response, *)
(* GetAccessToken returns an error to its caller.                          *)
(***************************************************************************)
C8_PostErrorReturned ==
    \A s \in Sessions :
        LET t == ret[s].token
        IN  (t.state # "none" /\ t.resp.err /\ t.resp.respNil)
            => (t.state = "returned" /\ t.err # ErrNil /\ t.isNil)

(***************************************************************************)
(* C9: when the body of the token endpoint's response is empty,            *)
(* GetAccessToken fails with the error "Empty response body", not with     *)
(* the error of the JSON decoder.                                          *)
(***************************************************************************)
C9_EmptyBodyError ==
    \A s \in Sessions :
        LET t == ret[s].token
        IN  (t.state # "none" /\ ~t.resp.err /\ t.resp.Body = "empty")
            => (t.state = "returned" /\ t.isNil /\ t.err = ErrEmptyBody)

(***************************************************************************)
(* C10: CreatePlaylist issues one POST and GetPlaylistInfo one GET; a call *)
(* that failed, an undecodable response included, is returned as an error, *)
(* and a result without error carries the id of the playlist.              *)
(***************************************************************************)
C10_SingleCallResult ==
    \A s \in Sessions :
        /\ ret[s].create.state = "returned"
             => /\ Cardinality(Calls(s, "create")) = 1
                /\ \A n \in Calls(s, "create") :
                      reqLog[s][n].outcome \in {"transport", "syntax"}
                      => ret[s].create.err # ErrNil
                /\ ret[s].create.err = ErrNil => ret[s].create.val.Id # ""
        /\ ret[s].info.state = "returned"
             => /\ Cardinality(Calls(s, "info")) = 1
                /\ \A n \in Calls(s, "info") :
                      reqLog[s][n].outcome \in {"transport", "syntax"}
                      => ret[s].info.err # ErrNil
                /\ ret[s].info.err = ErrNil => ret[s].info.val.Id # ""


(***************************************************************************)
(* C11: when the first page reports total = 0, GetUserPlaylists and        *)
(* GetTracksForPlaylist return an empty collection and no error after      *)
(* exactly one GET, at offset 0.                                           *)
(***************************************************************************)
C11_EmptyCollectionOneRequest ==
    \A s \in Sessions : \A kind \in FetchKinds :
        (/\ Calls(s, kind) # {}
         /\ reqLog[s][FirstOfKind(s, kind)].outcome # "transport"
         /\ Envelope(s, FirstOfKind(s, kind)).Total = 0)
        => /\ Cardinality(Calls(s, kind)) = 1
           /\ \A n \in Calls(s, kind) : reqLog[s][n].offset = 0
           /\ FetchRet(s, kind).state = "returned"
           /\ FetchRet(s, kind).err = ErrNil
           /\ FetchRet(s, kind).items = <<>>

\* The fetch of the tracks of an empty playlist has returned.
C11_Witness ==
    \E s \in Sessions :
        /\ total[s] = 0
        /\ Calls(s, "tracks") # {}
        /\ AllOk(s, "tracks")
        /\ ret[s].tracks.state = "returned"

(***************************************************************************)
(* C12: AddTracksToPlaylist called with no tracks issues no request and    *)
(* returns the initial, empty result (empty snapshot id) and no error.     *)
(***************************************************************************)
C12_NoTracksNoRequest ==
    \A s \in Sessions :
        (pc[s] \in {"AddTracksToPlaylist", "done"}
         /\ ret[s].create.state = "returned"
         /\ ret[s].tracks.items = <<>>)
        => /\ Calls(s, "add") = {}
           /\ ret[s].add.state = "returned" =>
                 /\ ret[s].add.err = ErrNil
                 /\ ret[s].add.val = ZeroAddTrackToPlaylistResponse
           /\ pc[s] = "done" => ret[s].add.state = "returned"

\* AddTracksToPlaylist has returned from a call with no tracks.
C12_Witness ==
    \E s \in Sessions :
        /\ ret[s].add.state = "returned"
        /\ ret[s].tracks.state = "returned"
        /\ ret[s].tracks.items = <<>>


(***************************************************************************)
(* C13: in every run of duplicatePlaylist the remote calls come in the     *)
(* order: the metadata GET, the track page GETs, the one create POST, the  *)
(* track write POSTs; the create is issued only after the track fetch has  *)
(* returned, and a write only after the create call has returned.          *)
(***************************************************************************)
C13_CallOrder ==
    \A s \in Sessions :
        handler[s] = "duplicatePlaylist"
        => /\ \A m, n \in DOMAIN reqLog[s] :
                 m < n => Rank(reqLog[s][m].kind) <= Rank(reqLog[s][n].kind)
           /\ Cardinality(Calls(s, "info")) <= 1
           /\ Cardinality(Calls(s, "create")) <= 1
           /\ Calls(s, "tracks") # {} => ret[s].info.state = "returned"
           /\ Calls(s, "create") # {} => ret[s].tracks.state = "returned"
           /\ Calls(s, "add") # {} => ret[s].create.state = "returned"

\* A run with several track pages and two writes has finished.
C13_Witness ==
    \E s \in Sessions :
        /\ handler[s] = "duplicatePlaylist"
        /\ pc[s] = "done"
        /\ Cardinality(Calls(s, "info")) = 1
        /\ Cardinality(Calls(s, "tracks")) > 20
        /\ Cardinality(Calls(s, "create")) = 1
        /\ Cardinality(Calls(s, "add")) = 2


C15_TwoRunsTwoCopies ==
    \A a \in Sessions :
        (handler[a] = "duplicatePlaylist" /\ pc[a] = "done")
        => LET mine == ret[a].create.val.Id
               at == ServerFind(playlistCreator, mine)
           IN  /\ Cardinality(Calls(a, "create")) = 1
               /\ at # 0
               /\ srv[at].uris = SourceUris(total[a])
               /\ \A n \in Calls(a, "add") : reqLog[a][n].id = mine
               /\ \A b \in Sessions \ {a} :
                     /\ ret[b].create.state = "returned"
                           => ret[b].create.val.Id # mine
                     /\ (handler[b] = "duplicatePlaylist" /\ pc[b] = "done")
                           => /\ Len(srv) = 2
                              /\ srv[1].Id # srv[2].Id

\* Both runs have finished, each after two writes.
C15_Witness ==
    /\ \A s \in Sessions :
          /\ handler[s] = "duplicatePlaylist"
          /\ pc[s] = "done"
          /\ Cardinality(Calls(s, "add")) = 2
    /\ Len(srv) = 2


(***************************************************************************)
(* C16: the batches AddTracksToPlaylist sends are consecutive slices of    *)
(* its input: the URI lists of its requests, concatenated in the order     *)
(* sent, are the URIs of the input tracks in input order (all of them once *)
(* it has returned without error), and every batch but the last holds      *)
(* exactly 100 URIs.                                                       *)
(***************************************************************************)
C16_BatchesPartitionInput ==
    \A s \in Sessions :
        LET tracks == ret[s].tracks.items
            adds == Calls(s, "add")
            sent == SentUris(s, Len(reqLog[s]))
        IN  /\ IsPrefix(sent, [k \in DOMAIN tracks |->
                                  "spotify:track:" \o tracks[k].Id])
            /\ \A n \in adds : ~LastOfKind(s, n) => Len(reqLog[s][n].uris) = 100
            /\ (ret[s].add.state = "returned" /\ ret[s].add.err = ErrNil)
                  => Len(sent) = Len(tracks)

\* Three batches were sent and the function has returned without error.
C16_Witness ==
    \E s \in Sessions :
        /\ Cardinality(Calls(s, "add")) = 3
        /\ ret[s].add.state = "returned"
        /\ ret[s].add.err = ErrNil
        /\ Len(SentUris(s, Len(reqLog[s]))) = 2 * BatchSize + 1


(***************************************************************************)
(* C17: the k-th request of a pagination loop has limit 5 and offset       *)
(* 5*(k-1); after every page that arrives the loop stops exactly when the  *)
(* accumulated count has reached the total of that page, and otherwise     *)
(* advances the offset by the limit and stays in the loop.                 *)
(***************************************************************************)
C17_Offsets ==
    \A s \in Sessions : \A kind \in FetchKinds : \A n \in Calls(s, kind) :
        LET k == Cardinality({m \in Calls(s, kind) : m <= n})
        IN  /\ reqLog[s][n].limit = 5
            /\ reqLog[s][n].offset = 5 * (k - 1)

C17_StopRule ==
    \A s \in Sessions : \A kind \in FetchKinds :
        (/\ Len(reqLog'[s]) = Len(reqLog[s]) + 1
         /\ reqLog'[s][Len(reqLog'[s])].kind = kind
         /\ reqLog'[s][Len(reqLog'[s])].outcome # "transport")
        => IF Len(items'[s]) >= Envelope(s, Len(reqLog[s]))'.Total
           THEN /\ FetchRet(s, kind)'.state = "returned"
                /\ FetchRet(s, kind)'.items = items'[s]
                /\ pc'[s] # FetchLabel(kind)
           ELSE /\ FetchRet(s, kind)'.state = "none"
                /\ pc'[s] = FetchLabel(kind)
                /\ offset'[s] = offset[s] + 5

C17_OffsetsAndStopRule == []C17_Offsets /\ [][C17_StopRule]_vars

\* A fetch has issued its ninth request, at offset 40.
C17_Witness ==
    \E s \in Sessions : \E n \in Calls(s, "tracks") :
        /\ reqLog[s][n].offset = 40
        /\ Cardinality(Calls(s, "tracks")) = 9
        /\ pc[s] = "GetTracksForPlaylist"


(***************************************************************************)
(* C18: two invocations that interleave share no mutable state.  A step of *)
(* one leaves the accumulator, offset, batch index, request log and result *)
(* of the other unchanged, and each issues the requests and returns the    *)
(* result it does when it runs alone: page requests at offsets 0, 5, ...   *)
(* and the service's list, batches that are the consecutive slices of 100  *)
(* of its input and the snapshot id of its last write.                     *)
(***************************************************************************)
C18_Frame ==
    \E s \in Sessions : \A t \in Sessions \ {s} :
        /\ items'[t] = items[t]
        /\ offset'[t] = offset[t]
        /\ batch'[t] = batch[t]
        /\ addTrackResponse'[t] = addTrackResponse[t]
        /\ reqLog'[t] = reqLog[t]
        /\ ret'[t] = ret[t]
        /\ pc'[t] = pc[t]

C18_AsAlone ==
    \A s \in Sessions :
        /\ \A kind \in FetchKinds :
              LET calls == Calls(s, kind)
              IN  /\ \A n \in calls :
                        reqLog[s][n].offset =
                            limit * (Cardinality({m \in calls : m <= n}) - 1)
                  /\ pc[s] = FetchLabel(kind) =>
                        /\ offset[s] = limit * Cardinality(calls)
                        /\ items[s] = SubSeq(ServerList(s, kind), 1,
                                             limit * Cardinality(calls))
                  /\ FetchRet(s, kind).state = "returned" =>
                        /\ FetchRet(s, kind).err = ErrNil
                        /\ FetchRet(s, kind).items = ServerList(s, kind)
                        /\ Cardinality(calls) =
                              IF total[s] = 0 THEN 1 ELSE CeilDiv(total[s], limit)
        /\ LET adds == Calls(s, "add")
               uris == SourceUris(total[s])
           IN  /\ \A n \in adds :
                     LET k == Cardinality({m \in adds : m <= n})
                     IN  /\ reqLog[s][n].uris =
                               SubSeq(uris, BatchSize * (k - 1) + 1,
                                      Min(BatchSize * k, total[s]))
                         /\ reqLog[s][n].id = ret[s].create.val.Id
                         /\ reqLog[s][n].snapshot =
                               ServerSnapshot(ret[s].create.val.Id,
                                   SubSeq(uris, 1, Min(BatchSize * k, total[s])))
               /\ pc[s] = "AddTracksToPlaylist" =>
                     batch[s] = BatchSize * Cardinality(adds)
               /\ ret[s].add.state = "returned" =>
                     /\ ret[s].add.err = ErrNil
                     /\ Cardinality(adds) = CeilDiv(total[s], BatchSize)
                     /\ ret[s].add.val.SnapshotId =
                           IF total[s] = 0 THEN ""
                           ELSE ServerSnapshot(ret[s].create.val.Id, uris)

C18_NoSharedState == []C18_AsAlone /\ [][C18_Frame]_vars

\* One invocation is between its two batches while the other is in the
\* middle of its pagination loop.
C18_Witness ==
    \E a, b \in Sessions :
        /\ a # b
        /\ pc[a] = "AddTracksToPlaylist"
        /\ batch[a] = BatchSize
        /\ Cardinality(Calls(a, "add")) = 1
        /\ pc[b] = "GetUserPlaylists"
        /\ offset[b] = 2 * limit
        /\ Len(items[b]) = 2 * limit


(***************************************************************************)
(* C19: a handler whose library call returned an error produces no further *)
(* output.  After a failed GetAccessToken, authCallback does not read the  *)
(* token, call GetUserInfo or redirect; after a failed step,               *)
(* duplicatePlaylist writes no further content.                            *)
(***************************************************************************)
C19_ErrorEndsOutput ==
    \A s \in Sessions :
        /\ (handler[s] = "authCallback" /\ ret[s].token.state = "returned"
             /\ ret[s].token.err # ErrNil)
              => /\ pc[s] # "panic"
                 /\ Calls(s, "me") = {}
                 /\ Written(s, "redirect") = {}
        /\ handler[s] = "duplicatePlaylist"
              => /\ ret[s].info.err # ErrNil => out[s] = <<>>
                 /\ ret[s].tracks.err # ErrNil =>
                       /\ Written(s, "Original") = {}
                       /\ Written(s, "Copy") = {}
                       /\ Written(s, "Snapshot ID") = {}
                 /\ ret[s].create.err # ErrNil =>
                       /\ Written(s, "Copy") = {}
                       /\ Written(s, "Snapshot ID") = {}
                 /\ ret[s].add.err # ErrNil => Written(s, "Snapshot ID") = {}


(***************************************************************************)
(* C20: a fetch that has returned without error returns at least as many   *)
(* items as the total reported by the last page it received; a page that   *)
(* is empty or short and reports a total above the accumulated count is    *)
(* never the page the fetch returns at.                                    *)
(***************************************************************************)
C20_ReturnedCoversLastTotal ==
    \A s \in Sessions : \A kind \in FetchKinds :
        (FetchRet(s, kind).state = "returned" /\ FetchRet(s, kind).err = ErrNil)
        => \A n \in Calls(s, kind) :
              LastOfKind(s, n)
              => /\ reqLog[s][n].outcome # "transport"
                 /\ Len(FetchRet(s, kind).items) >= Envelope(s, n).Total
                 /\ ~(/\ Len(Envelope(s, n).Items) < limit
                      /\ Envelope(s, n).Total > Len(Accumulated(s, kind, n)))

\* A fetch has returned without error after going on past an empty page
\* that reported a total above the accumulated count.
C20_Witness ==
    \E s \in Sessions : \E n \in Calls(s, "tracks") :
        /\ reqLog[s][n].outcome = "partial"
        /\ Envelope(s, n).Total > Len(Accumulated(s, "tracks", n))
        /\ ~LastOfKind(s, n)
        /\ ret[s].tracks.state = "returned"
        /\ ret[s].tracks.err = ErrNil


(***************************************************************************)
(* C21: against a service that makes progress (on every request made while *)
(* the accumulated count is below the reported total it fails in the       *)
(* transport or returns at least one item, with a total that does not      *)
(* grow), a pagination loop that has started eventually returns; the loop  *)
(* has no bound of its own on the requests: it returns only on a transport *)
(* error or when the accumulated count has reached the last total.         *)
(***************************************************************************)
C21_OnlyExits ==
    \A s \in Sessions : \A kind \in FetchKinds :
        FetchRet(s, kind).state = "returned"
        => \/ FetchRet(s, kind).err # ErrNil
           \/ Len(FetchRet(s, kind).items) >= total[s]

C21_FetchReturns ==
    /\ \A s \in Sessions : \A kind \in FetchKinds :
          (pc[s] = FetchLabel(kind)) ~> (FetchRet(s, kind).state = "returned")
    /\ []C21_OnlyExits

\* A fetch has returned after three pages of one item each.
C21_Witness ==
    \E s \in Sessions :
        /\ ret[s].tracks.state = "returned"
        /\ ret[s].tracks.err = ErrNil
        /\ Cardinality(Calls(s, "tracks")) = 3
        /\ Len(ret[s].tracks.items) = 3
        /\ total[s] = 3


(***************************************************************************)
(* C22: duplicatePlaylist only reads the source playlist.  On every path,  *)
(* every write of tracks is a POST under the creator's username to the     *)
(* playlist id its own create call returned (the empty id when the create  *)
(* failed), no POST goes to the source playlist id, every request that     *)
(* names the source is a GET, and the service holds no written playlist    *)
(* with the id of the source.                                              *)
(***************************************************************************)
C22_SourceOnlyRead ==
    \A s \in Sessions :
        handler[s] = "duplicatePlaylist"
        => /\ \A n \in Calls(s, "add") :
                 /\ reqLog[s][n].method = "POST"
                 /\ reqLog[s][n].user = playlistCreator
                 /\ ret[s].create.state = "returned"
                 /\ reqLog[s][n].id = ret[s].create.val.Id
           /\ \A n \in DOMAIN reqLog[s] :
                 /\ reqLog[s][n].method = "POST" => reqLog[s][n].id # playlistId
                 /\ reqLog[s][n].id = playlistId =>
                       /\ reqLog[s][n].method = "GET"
                       /\ reqLog[s][n].user = playlistOwner
           /\ \A k \in DOMAIN srv : srv[k].Id # playlistId

\* A run has finished on a failure path: the create call went wrong and the
\* two writes that followed were sent to the empty id.
C22_Witness ==
    \E s \in Sessions : \E c \in Calls(s, "create"), n \in Calls(s, "add") :
        /\ handler[s] = "duplicatePlaylist"
        /\ reqLog[s][c].outcome # "ok"
        /\ ret[s].create.val.Id = ""
        /\ reqLog[s][n].id = ""
        /\ Cardinality(Calls(s, "add")) = 2
        /\ pc[s] = "done"

====
